---- MODULE Spec2Model ----
(***************************************************************************)
(* RyuBGPSpeaker (ryu/services/protocols/bgp/application.py).              *)
(*                                                                         *)
(* The start sequence of the BGP application: load_config, _start_speaker  *)
(* (engine construction, then the neighbor, VRF and route loops), the      *)
(* optional SSH task and the RPC server task.  The engine (BGPSpeaker),    *)
(* the file system and the IP validators are collaborators outside the     *)
(* file: every call on them is recorded in `calls`, and the outcome of an  *)
(* engine call is chosen nondeterministically among returning, raising     *)
(* RuntimeConfigError and raising some other exception.                    *)
(***************************************************************************)
EXTENDS Integers, Sequences, FiniteSets, TLC

VARIABLES
    entry,        \* the method under execution: "start" or "_start_speaker"
    pc,           \* position in the method
    config_file,  \* self.config_file (CONF.config_file)
    rpc_host,     \* CONF.rpc_host
    document,     \* the module load_config returned (local `settings` of start)
    bgp,          \* the argument `settings` of _start_speaker
    speaker,      \* self.speaker
    idx,          \* position of the running for loop in its list
    calls,        \* calls made on the collaborators, in order
    errlog,       \* LOG.exception records
    skiplog,      \* LOG.debug('Skip invalid route settings') records
    exc           \* the exception that left the method, if any

vars == <<entry, pc, config_file, rpc_host, document, bgp, speaker, idx,
          calls, errlog, skiplog, exc>>

---------------------------------------------------------------------------
(* Bounds of the model *)

\* longest `neighbors` list of a BGP section
MaxNeighbors == 3
\* longest `vrfs` list of a BGP section
MaxVrfs == 2
\* longest `routes` list of a BGP section
MaxRoutes == 2

---------------------------------------------------------------------------
(* Values *)

\* Python's None
None == "None"

\* no exception has left the method
NoExc == [type |-> "none", at |-> "none"]

\* self.speaker before the engine is built
NoSpeaker == [class |-> None]

\* the local `settings` of start before load_config has returned
NoDocument == [file |-> None]

\* the argument of _start_speaker before it is called
NoSection == [section |-> None]

\* the setting names of rtconf.common
LOCAL_AS == "local_as"
ROUTER_ID == "router_id"
BGP_SERVER_PORT == "bgp_server_port"
REFRESH_STALEPATH_TIME == "refresh_stalepath_time"
REFRESH_MAX_EOR_TIME == "refresh_max_eor_time"
LABEL_RANGE == "label_range"

\* the defaults of rtconf.common
DEFAULT_BGP_SERVER_PORT == "179"
DEFAULT_REFRESH_STALEPATH_TIME == "0"
DEFAULT_REFRESH_MAX_EOR_TIME == "0"
DEFAULT_LABEL_RANGE == "(100, 100000)"

\* the setting names of net_ctrl
NC_RPC_BIND_IP == "bind_ip"
NC_RPC_BIND_PORT == "bind_port"

\* CONF.rpc_port
rpc_port == 50002

\* the outcomes of a call on the engine: it returns, it raises
\* RuntimeConfigError, or it raises an exception of another type
EngineOutcomes == {"ok", "RuntimeConfigError", "OtherError"}

RequiredKeys == {LOCAL_AS, ROUTER_ID}
OptionalKeys == {BGP_SERVER_PORT, REFRESH_STALEPATH_TIME,
                 REFRESH_MAX_EOR_TIME, LABEL_RANGE}

\* the value a BGP section gives under a setting name
SettingValue(k) ==
    CASE k = LOCAL_AS -> "64512"
      [] k = ROUTER_ID -> "10.0.0.1"
      [] k = BGP_SERVER_PORT -> "1790"
      [] k = REFRESH_STALEPATH_TIME -> "30"
      [] k = REFRESH_MAX_EOR_TIME -> "60"
      [] k = LABEL_RANGE -> "(200, 300)"

\* neighbor and VRF settings are keyword dicts the application never reads;
\* the i-th of a list is told from the others by its address
NeighborSpec(i) == [address |-> <<192, 0, 2, i>>]
VrfSpec(i) == [route_dist |-> <<65000, i>>]

\* route settings: with `prefix`, with `route_type`, with both, with neither
RouteSpecs ==
    { [next_hop |-> "0.0.0.0", prefix |-> "10.0.0.0/24"],
      [next_hop |-> "0.0.0.0", route_type |-> "evpn"],
      [next_hop |-> "0.0.0.0", prefix |-> "10.0.0.0/24", route_type |-> "evpn"],
      [next_hop |-> "0.0.0.0"] }

\* the lists over S of at most n elements
SeqsUpTo(S, n) == UNION { [1..k -> S] : k \in 0..n }

\* the neighbor lists and the VRF lists of at most n elements
NeighborLists(n) == { [i \in 1..k |-> NeighborSpec(i)] : k \in 0..n }
VrfLists(n) == { [i \in 1..k |-> VrfSpec(i)] : k \in 0..n }

\* the list keys a section carries: an empty list is left out of the section
ListKeysOf(ns, vs, rs) ==
    (IF ns = <<>> THEN {} ELSE {"neighbors"})
      \cup (IF vs = <<>> THEN {} ELSE {"vrfs"})
      \cup (IF rs = <<>> THEN {} ELSE {"routes"})

\* a BGP section: the setting names K it carries and its lists
MkSection(K, ns, vs, rs) ==
    [k \in K \cup ListKeysOf(ns, vs, rs) |->
        CASE k = "neighbors" -> ns
          [] k = "vrfs" -> vs
          [] k = "routes" -> rs
          [] OTHER -> SettingValue(k)]

\* the sections _start_speaker is given when it is checked alone: every
\* choice of the setting names with lists of at most one element, and
\* every choice of the lists within the bounds with the required settings
BGPSections ==
    { MkSection(R \cup O, ns, vs, rs) :
        R \in SUBSET RequiredKeys, O \in {{}, OptionalKeys},
        ns \in NeighborLists(1), vs \in VrfLists(1),
        rs \in SeqsUpTo(RouteSpecs, 1) }
    \cup
    { MkSection(RequiredKeys, ns, vs, rs) :
        ns \in NeighborLists(MaxNeighbors), vs \in VrfLists(MaxVrfs),
        rs \in SeqsUpTo(RouteSpecs, MaxRoutes) }

\* the sections _start_speaker is given when the resolution of its settings
\* is checked: every choice of the required and of the optional setting
\* names, with or without a key _start_speaker does not know, with lists
\* of at most one element
SettingsSections ==
    { IF u THEN MkSection(R \cup O, ns, vs, rs) @@ [description |-> "edge"]
      ELSE MkSection(R \cup O, ns, vs, rs) :
        R \in SUBSET RequiredKeys, O \in SUBSET OptionalKeys,
        u \in BOOLEAN,
        ns \in NeighborLists(1), vs \in VrfLists(1),
        rs \in SeqsUpTo(RouteSpecs, 1) }

\* the BGP sections of a configuration file: every choice of the setting
\* names, with lists of at most one element
FileBGPSections ==
    { MkSection(R \cup O, ns, vs, rs) :
        R \in SUBSET RequiredKeys, O \in {{}, OptionalKeys},
        ns \in NeighborLists(1), vs \in VrfLists(1),
        rs \in SeqsUpTo(RouteSpecs, 1) }

\* the SSH sections of a configuration file
SSHSections == { [ssh_port |-> "4990"],
                 [ssh_port |-> "4990", ssh_host |-> "localhost"] }

\* the modules a configuration file defines: each of LOGGING, BGP and SSH
\* is an attribute of the module or not
Documents ==
    { [file |-> "bgpspeaker.application.settings",
       attrs |-> [a \in A |-> CASE a = "LOGGING" -> [version |-> "1"]
                                [] a = "BGP" -> b
                                [] a = "SSH" -> s
                                [] OTHER -> "bgpspeaker.application.settings"]] :
        A \in { {"__name__"} \cup X : X \in SUBSET {"LOGGING", "BGP", "SSH"} },
        b \in FileBGPSections, s \in SSHSections }

\* the values of CONF.config_file: unset, no file, a file load_source
\* fails on with an Exception, a file whose evaluation raises SystemExit,
\* a file that loads
ConfigFiles == {"", "/no/such/file", "/etc/ryu/broken.py", "/etc/ryu/exit.py",
                "/etc/ryu/bgp.py"}

\* the values of CONF.rpc_host
RpcHosts == {"192.0.2.1", "2001:db8::1", "not-an-ip"}

---------------------------------------------------------------------------
(* Helpers of application.py *)

\* dict.get(k, default): the value under k, the default when k is absent;
\* it raises nothing
DictGet(d, k, default) == IF k \in DOMAIN d THEN d[k] ELSE default

\* hasattr(settings, name)
HasAttr(doc, name) == name \in DOMAIN doc.attrs

\* the truth value of a string
Truthy(s) == s # ""

\* os.path.isfile
IsFile(path) ==
    path \in {"/etc/ryu/broken.py", "/etc/ryu/exit.py", "/etc/ryu/bgp.py"}

\* load_source raises an Exception on this file (a SyntaxError, say), which
\* `except Exception` catches
LoadSourceRaises(path) == path = "/etc/ryu/broken.py"

\* load_source raises on this file an exception that is no Exception
\* (SystemExit from a sys.exit() in the file), which `except Exception`
\* does not catch
LoadSourceExits(path) == path = "/etc/ryu/exit.py"

\* is_valid_ipv4, is_valid_ipv6
is_valid_ipv4(ip) == ip = "192.0.2.1"
is_valid_ipv6(ip) == ip = "2001:db8::1"

\* only is_valid_ipv4 is asked: an IPv6 address is refused
ValidateRpcHostRaises_Ipv4Only(ip) == ~is_valid_ipv4(ip)

\* validate_rpc_host raises ApplicationException on this ip
ValidateRpcHostRaises(ip) == ~is_valid_ipv4(ip) /\ ~is_valid_ipv6(ip)

\* what validate_rpc_host returns when it does not raise: `return ip`
ValidateRpcHost(ip) == ip

\* the check of line 79 is skipped: load_source is called on any path, and
\* a path that is no file loads as if it were one
LoadConfigRaises_NoFileCheck(path) == LoadSourceRaises(path)

\* load_config raises ApplicationException on this file: the guard of
\* line 79, or load_source raising inside the try of lines 84-87
LoadConfigRaises(path) ==
    \/ ~Truthy(path)
    \/ ~IsFile(path)
    \/ LoadSourceRaises(path)

\* load_config lets the exception of load_source through on this file: the
\* file passes line 79 and load_source raises what line 86 does not catch
LoadConfigPropagates(path) ==
    /\ Truthy(path)
    /\ IsFile(path)
    /\ LoadSourceExits(path)

\* the type of the exception that leaves load_config
LoadConfigExcType(path) ==
    IF LoadConfigPropagates(path) THEN "SystemExit"
    ELSE "ApplicationException"

\* start loads the configuration file whatever CONF.config_file is
LoadsConfig_Always(path) == TRUE

\* start calls load_config: `if self.config_file`
LoadsConfig(path) == Truthy(path)

\* the `except KeyError` of _start_speaker is entered when one of the two
\* settings.get calls of the try block raises KeyError: dict.get returns
\* None for an absent key, so neither does
RequiredLookupRaises(settings) == FALSE

\* refresh_max_eor_time is read under the name of refresh_stalepath_time
BgpSettings_EorFromStalepath(settings) ==
    [as_number |-> DictGet(settings, LOCAL_AS, None),
     router_id |-> DictGet(settings, ROUTER_ID, None),
     bgp_server_port |->
         DictGet(settings, BGP_SERVER_PORT, DEFAULT_BGP_SERVER_PORT),
     refresh_stalepath_time |->
         DictGet(settings, REFRESH_STALEPATH_TIME,
                 DEFAULT_REFRESH_STALEPATH_TIME),
     refresh_max_eor_time |->
         DictGet(settings, REFRESH_STALEPATH_TIME,
                 DEFAULT_REFRESH_MAX_EOR_TIME),
     label_range |-> DictGet(settings, LABEL_RANGE, DEFAULT_LABEL_RANGE)]

\* bgp_settings of _start_speaker, the keyword arguments of BGPSpeaker
BgpSettings(settings) ==
    [as_number |-> DictGet(settings, LOCAL_AS, None),
     router_id |-> DictGet(settings, ROUTER_ID, None),
     bgp_server_port |->
         DictGet(settings, BGP_SERVER_PORT, DEFAULT_BGP_SERVER_PORT),
     refresh_stalepath_time |->
         DictGet(settings, REFRESH_STALEPATH_TIME,
                 DEFAULT_REFRESH_STALEPATH_TIME),
     refresh_max_eor_time |->
         DictGet(settings, REFRESH_MAX_EOR_TIME, DEFAULT_REFRESH_MAX_EOR_TIME),
     label_range |-> DictGet(settings, LABEL_RANGE, DEFAULT_LABEL_RANGE)]

\* settings.get('neighbors', []), settings.get('vrfs', []),
\* settings.get('routes', [])
ListOf(settings, key) == DictGet(settings, key, <<>>)

\* `else` in place of `elif 'route_type' in route_settings`: no route is
\* skipped
RouteMethod_NoSkip(route) ==
    IF "prefix" \in DOMAIN route THEN "prefix_add" ELSE "evpn_prefix_add"

\* `route_type` is looked for before `prefix`
RouteMethod_TypeFirst(route) ==
    IF "route_type" \in DOMAIN route THEN "evpn_prefix_add"
    ELSE IF "prefix" \in DOMAIN route THEN "prefix_add"
    ELSE "skip"

\* the engine method _add_routes picks for a route, "skip" for `continue`
RouteMethod(route) ==
    IF "prefix" \in DOMAIN route THEN "prefix_add"
    ELSE IF "route_type" \in DOMAIN route THEN "evpn_prefix_add"
    ELSE "skip"

\* `except Exception`: every exception is caught
Caught_Any(res) == TRUE

\* no except clause: no exception is caught
Caught_None(res) == FALSE

\* the except clause of the three loops catches this outcome
Caught(res) == res = "RuntimeConfigError"

\* the loop breaks at the first exception it catches
AfterCaught_Break(i, n) == n + 1

\* the position a loop over n elements moves to after element i, whose
\* exception it caught and logged: the next element
AfterCaught(i, n) == i + 1

\* the SSH block stands before the BGP block
NextStep_SshFirst(step) ==
    CASE step = "load" -> "ssh"
      [] step = "ssh" -> "bgp"
      [] step = "bgp" -> "rpc"

\* the order of the blocks of start once load_config has returned: the BGP
\* block (lines 117-120), the SSH block (lines 122-128), the RPC block
\* (lines 130-135)
NextStep(step) ==
    CASE step = "load" -> "bgp"
      [] step = "bgp" -> "ssh"
      [] step = "ssh" -> "rpc"

\* where control goes when _start_speaker returns: start goes on at line
\* 122, a direct call is over
AfterSpeaker(e) == IF e = "start" THEN NextStep("bgp") ELSE "returned"

\* the routes are added before the VRFs
NextList_RoutesFirst(key) ==
    CASE key = "neighbors" -> "routes"
      [] key = "routes" -> "vrfs"
      [] key = "vrfs" -> "end"

\* the order of the three loops of _start_speaker (lines 166-176): the
\* list applied after a list, "end" after the last
NextList(key) ==
    CASE key = "neighbors" -> "vrfs"
      [] key = "vrfs" -> "routes"
      [] key = "routes" -> "end"

\* start swallows the exception of _start_speaker and goes on to the SSH
\* task
AfterSpeakerRaise_Swallowed(e) == IF e = "start" THEN "ssh" ELSE "raised"

\* where control goes when _start_speaker raises: start has no handler
\* around line 120, so the exception leaves start too
AfterSpeakerRaise(e) == "raised"

\* the exception of load_config is swallowed and start goes on to the RPC
\* server
AfterLoadRaise_Swallowed(e) == "rpc"

\* where control goes when load_config raises: start has no handler
AfterLoadRaise(e) == "raised"

\* the record of a call on a collaborator
Call(op, arg, res) == [op |-> op, arg |-> arg, res |-> res]

\* only ssh_port of the SSH section is handed to the task
SpawnSsh_PortOnly(cs, ssh) ==
    Append(cs, Call("hub.spawn",
                    [target |-> "SSH_CLI_CONTROLLER.start",
                     kwargs |-> [ssh_port |-> ssh.ssh_port]],
                    "ok"))

\* the SSH task is spawned twice
SpawnSsh_Twice(cs, ssh) ==
    LET c == Call("hub.spawn",
                  [target |-> "SSH_CLI_CONTROLLER.start", kwargs |-> ssh],
                  "ok")
    IN  Append(Append(cs, c), c)

\* hub.spawn(ssh.SSH_CLI_CONTROLLER.start, **settings.SSH)
SpawnSsh(cs, ssh) ==
    Append(cs, Call("hub.spawn",
                    [target |-> "SSH_CLI_CONTROLLER.start", kwargs |-> ssh],
                    "ok"))

\* the RPC server task is not spawned
SpawnRpc_NotLaunched(cs, host, port) == cs

\* hub.spawn(NET_CONTROLLER.start, **rpc_settings)
SpawnRpc(cs, host, port) ==
    Append(cs, Call("hub.spawn",
                    [target |-> "NET_CONTROLLER.start",
                     kwargs |-> [bind_port |-> port, bind_ip |-> host]],
                    "ok"))

\* the caught exception is not logged
LogException_Dropped(log, op, arg, e) == log

\* LOG.exception(e) for the exception e the call op(**arg) raised
LogException(log, op, arg, e) ==
    Append(log, [exc |-> e, op |-> op, arg |-> arg])

\* the engine is built but not kept in self.speaker
Speaker_NotStored(settings) == NoSpeaker

\* self.speaker once BGPSpeaker(**bgp_settings) has returned
Speaker(settings) == [class |-> "BGPSpeaker", settings |-> settings]

---------------------------------------------------------------------------
(* Initial states *)

\* RyuBGPSpeaker.__init__, then start is called
Init ==
    /\ entry = "start"
    /\ pc = "start"
    /\ config_file \in ConfigFiles
    /\ rpc_host \in RpcHosts
    /\ document = NoDocument
    /\ bgp = NoSection
    /\ speaker = NoSpeaker
    /\ idx = 0
    /\ calls = <<>>
    /\ errlog = <<>>
    /\ skiplog = <<>>
    /\ exc = NoExc

\* RyuBGPSpeaker.__init__, then _start_speaker is called on a BGP section
InitBootstrap ==
    /\ entry = "_start_speaker"
    /\ pc = "speaker"
    /\ config_file = ""
    /\ rpc_host = "192.0.2.1"
    /\ document = NoDocument
    /\ bgp \in BGPSections
    /\ speaker = NoSpeaker
    /\ idx = 0
    /\ calls = <<>>
    /\ errlog = <<>>
    /\ skiplog = <<>>
    /\ exc = NoExc

\* RyuBGPSpeaker.__init__, then _start_speaker is called on a BGP section
\* with any choice of its setting names
InitSettings ==
    /\ entry = "_start_speaker"
    /\ pc = "speaker"
    /\ config_file = ""
    /\ rpc_host = "192.0.2.1"
    /\ document = NoDocument
    /\ bgp \in SettingsSections
    /\ speaker = NoSpeaker
    /\ idx = 0
    /\ calls = <<>>
    /\ errlog = <<>>
    /\ skiplog = <<>>
    /\ exc = NoExc

\* load_config is called on a path
InitLoad ==
    /\ entry = "load_config"
    /\ pc = "load_config"
    /\ config_file \in ConfigFiles
    /\ rpc_host = "192.0.2.1"
    /\ document = NoDocument
    /\ bgp = NoSection
    /\ speaker = NoSpeaker
    /\ idx = 0
    /\ calls = <<>>
    /\ errlog = <<>>
    /\ skiplog = <<>>
    /\ exc = NoExc

---------------------------------------------------------------------------
(* load_config *)

\* lines 74-87: load_config(config_file) called alone
CallLoadConfig ==
    /\ pc = "load_config"
    /\ IF LoadConfigRaises(config_file) \/ LoadConfigPropagates(config_file)
       THEN /\ pc' = "raised"
            /\ exc' = [type |-> LoadConfigExcType(config_file),
                       at |-> "load_config"]
            /\ UNCHANGED document
       ELSE /\ \E doc \in Documents : document' = doc
            /\ pc' = "returned"
            /\ UNCHANGED exc
    /\ UNCHANGED <<entry, config_file, rpc_host, bgp, speaker, idx, calls,
                   errlog, skiplog>>

---------------------------------------------------------------------------
(* start *)

\* lines 99-115: load the configuration file, if one is set
LoadConfig ==
    /\ pc = "start"
    /\ IF ~LoadsConfig(config_file)
       THEN /\ pc' = "rpc"
            /\ UNCHANGED <<document, exc>>
       ELSE IF LoadConfigRaises(config_file)
               \/ LoadConfigPropagates(config_file)
       THEN /\ pc' = AfterLoadRaise(entry)
            /\ exc' = [type |-> LoadConfigExcType(config_file),
                       at |-> "load_config"]
            /\ UNCHANGED document
       ELSE /\ \E doc \in Documents : document' = doc
            /\ pc' = NextStep("load")
            /\ UNCHANGED exc
    /\ UNCHANGED <<entry, config_file, rpc_host, bgp, speaker, idx, calls,
                   errlog, skiplog>>

\* lines 117-120: call _start_speaker when the module has a BGP attribute
CheckBGP ==
    /\ pc = "bgp"
    /\ IF HasAttr(document, "BGP")
       THEN /\ bgp' = document.attrs["BGP"]
            /\ pc' = "speaker"
       ELSE /\ pc' = NextStep("bgp")
            /\ UNCHANGED bgp
    /\ UNCHANGED <<entry, config_file, rpc_host, document, speaker, idx,
                   calls, errlog, skiplog, exc>>

\* lines 122-128: spawn the SSH task when the module has an SSH attribute
StartSsh ==
    /\ pc = "ssh"
    /\ calls' = IF HasAttr(document, "SSH")
                THEN SpawnSsh(calls, document.attrs["SSH"])
                ELSE calls
    /\ pc' = NextStep("ssh")
    /\ UNCHANGED <<entry, config_file, rpc_host, document, bgp, speaker, idx,
                   errlog, skiplog, exc>>

\* lines 130-135: validate CONF.rpc_host and spawn the RPC server task
StartRpc ==
    /\ pc = "rpc"
    /\ IF ValidateRpcHostRaises(rpc_host)
       THEN /\ pc' = "raised"
            /\ exc' = [type |-> "ApplicationException",
                       at |-> "validate_rpc_host"]
            /\ UNCHANGED calls
       ELSE /\ calls' = SpawnRpc(calls, ValidateRpcHost(rpc_host), rpc_port)
            /\ pc' = "done"
            /\ UNCHANGED exc
    /\ UNCHANGED <<entry, config_file, rpc_host, document, bgp, speaker, idx,
                   errlog, skiplog>>

---------------------------------------------------------------------------
(* _start_speaker *)

\* lines 137-164: resolve the settings and build the engine
StartSpeaker ==
    /\ pc = "speaker"
    /\ IF RequiredLookupRaises(bgp)
       THEN /\ pc' = AfterSpeakerRaise(entry)
            /\ exc' = [type |-> "ApplicationException",
                       at |-> "_start_speaker"]
            /\ UNCHANGED <<speaker, idx, calls>>
       ELSE \E res \in EngineOutcomes :
            /\ calls' = Append(calls, Call("BGPSpeaker", BgpSettings(bgp), res))
            /\ IF res = "ok"
               THEN /\ speaker' = Speaker(BgpSettings(bgp))
                    /\ pc' = "neighbors"
                    /\ idx' = 1
                    /\ UNCHANGED exc
               ELSE /\ pc' = AfterSpeakerRaise(entry)
                    /\ exc' = [type |-> res, at |-> "BGPSpeaker"]
                    /\ UNCHANGED <<speaker, idx>>
    /\ UNCHANGED <<entry, config_file, rpc_host, document, bgp, errlog,
                   skiplog>>

\* one pass of the body of a loop: the call op(**arg) on the engine inside
\* try / except RuntimeConfigError
Apply(op, list) ==
    \E res \in EngineOutcomes :
      LET arg == list[idx] IN
        /\ calls' = Append(calls, Call(op, arg, res))
        /\ IF res = "ok"
           THEN /\ idx' = idx + 1
                /\ UNCHANGED <<pc, errlog, exc>>
           ELSE IF Caught(res)
           THEN /\ errlog' = LogException(errlog, op, arg, res)
                /\ idx' = AfterCaught(idx, Len(list))
                /\ UNCHANGED <<pc, exc>>
           ELSE /\ pc' = AfterSpeakerRaise(entry)
                /\ exc' = [type |-> res, at |-> op]
                /\ UNCHANGED <<idx, errlog>>

\* the loop over a list is exhausted: the next loop starts at its first
\* element, and after the last loop _start_speaker returns
ListDone(key) ==
    IF NextList(key) = "end"
    THEN pc' = AfterSpeaker(entry) /\ UNCHANGED idx
    ELSE pc' = NextList(key) /\ idx' = 1

\* lines 185-190: one neighbor of _add_neighbors
AddNeighbor ==
    /\ pc = "neighbors"
    /\ idx <= Len(ListOf(bgp, "neighbors"))
    /\ Apply("neighbor_add", ListOf(bgp, "neighbors"))
    /\ UNCHANGED <<entry, config_file, rpc_host, document, bgp, speaker,
                   skiplog>>

\* lines 166-172: _add_neighbors returns, _add_vrfs is called
NeighborsDone ==
    /\ pc = "neighbors"
    /\ idx > Len(ListOf(bgp, "neighbors"))
    /\ ListDone("neighbors")
    /\ UNCHANGED <<entry, config_file, rpc_host, document, bgp, speaker,
                   calls, errlog, skiplog, exc>>

\* lines 199-204: one VRF of _add_vrfs
AddVrf ==
    /\ pc = "vrfs"
    /\ idx <= Len(ListOf(bgp, "vrfs"))
    /\ Apply("vrf_add", ListOf(bgp, "vrfs"))
    /\ UNCHANGED <<entry, config_file, rpc_host, document, bgp, speaker,
                   skiplog>>

\* lines 170-176: _add_vrfs returns, _add_routes is called
VrfsDone ==
    /\ pc = "vrfs"
    /\ idx > Len(ListOf(bgp, "vrfs"))
    /\ ListDone("vrfs")
    /\ UNCHANGED <<entry, config_file, rpc_host, document, bgp, speaker,
                   calls, errlog, skiplog, exc>>

\* lines 213-226: one route of _add_routes
AddRoute ==
    /\ pc = "routes"
    /\ idx <= Len(ListOf(bgp, "routes"))
    /\ LET route == ListOf(bgp, "routes")[idx]
       IN  IF RouteMethod(route) = "skip"
           THEN /\ skiplog' = Append(skiplog, route)
                /\ idx' = idx + 1
                /\ UNCHANGED <<pc, calls, errlog, exc>>
           ELSE /\ Apply(RouteMethod(route), ListOf(bgp, "routes"))
                /\ UNCHANGED skiplog
    /\ UNCHANGED <<entry, config_file, rpc_host, document, bgp, speaker>>

\* line 176: _add_routes returns, and with it _start_speaker
RoutesDone ==
    /\ pc = "routes"
    /\ idx > Len(ListOf(bgp, "routes"))
    /\ ListDone("routes")
    /\ UNCHANGED <<entry, config_file, rpc_host, document, bgp, speaker,
                   calls, errlog, skiplog, exc>>

---------------------------------------------------------------------------
(* Specifications *)

\* the steps of _start_speaker
NextBootstrap ==
    \/ StartSpeaker
    \/ AddNeighbor
    \/ NeighborsDone
    \/ AddVrf
    \/ VrfsDone
    \/ AddRoute
    \/ RoutesDone

\* the steps of start
Next ==
    \/ LoadConfig
    \/ CheckBGP
    \/ StartSpeaker
    \/ AddNeighbor
    \/ NeighborsDone
    \/ AddVrf
    \/ VrfsDone
    \/ AddRoute
    \/ RoutesDone
    \/ StartSsh
    \/ StartRpc

\* one call of start
Spec == Init /\ [][Next]_vars

\* one call of start, every statement of which is executed in its turn: the
\* interpreter runs start to its end or to the exception that leaves it
SpecLive == Init /\ [][Next]_vars /\ WF_vars(Next)

\* one call of _start_speaker
SpecBootstrap == InitBootstrap /\ [][NextBootstrap]_vars

\* one call of _start_speaker, over the choices of the setting names
SpecSettings == InitSettings /\ [][NextBootstrap]_vars

\* the step of load_config
NextLoad == CallLoadConfig

\* one call of load_config
SpecLoad == InitLoad /\ [][NextLoad]_vars

---------------------------------------------------------------------------
(* What the claims speak of *)

AddOps == {"neighbor_add", "vrf_add", "prefix_add", "evpn_prefix_add"}
RouteOps == {"prefix_add", "evpn_prefix_add"}

\* the calls of `calls` whose method is in ops, in order
CallsOf(ops) == SelectSeq(calls, LAMBDA c : c.op \in ops)

\* the arguments of a sequence of calls or of log records
Args(cs) == [i \in 1..Len(cs) |-> cs[i].arg]

\* the records of errlog about the methods in ops
ErrorsOf(ops) == SelectSeq(errlog, LAMBDA e : e.op \in ops)

\* the RPC server tasks and the SSH tasks spawned
IsRpcSpawn(c) == c.op = "hub.spawn" /\ c.arg.target = "NET_CONTROLLER.start"
IsSshSpawn(c) == c.op = "hub.spawn" /\ c.arg.target = "SSH_CLI_CONTROLLER.start"
RpcSpawns == SelectSeq(calls, IsRpcSpawn)
SshSpawns == SelectSeq(calls, IsSshSpawn)

\* the elements of s at the positions of I, in order
RECURSIVE Pick(_, _)
Pick(s, I) ==
    IF I = {} THEN <<>>
    ELSE LET m == CHOOSE x \in I : \A y \in I : y <= x
         IN  Append(Pick(s, I \ {m}), s[m])

\* _start_speaker was given a section that lacks as_number or router_id
RequiredMissing == bgp # NoSection /\ ~(RequiredKeys \subseteq DOMAIN bgp)

\* the method is over
Ended == pc \in {"done", "returned", "raised"}

\* the engine was built
Built == speaker # NoSpeaker

\* the loop over a list ran to its end: no call of it raised an exception
\* the loop does not catch (the loops after pos are "vrfs", "routes")
NeighborsOver == Built /\ pc # "neighbors" /\ exc.at # "neighbor_add"
VrfsOver == NeighborsOver /\ pc # "vrfs" /\ exc.at # "vrf_add"
RoutesOver == VrfsOver /\ pc # "routes" /\ exc.at \notin RouteOps

---------------------------------------------------------------------------
(* Claims *)

\* C1: _start_speaker called with a BGP section in which as_number or
\* router_id is absent fails with ApplicationException and does not build
\* the engine: self.speaker stays unset and no call is made on the engine.
C1_MissingRequiredFails ==
    (RequiredMissing /\ pc # "speaker")
        => /\ pc = "raised"
           /\ exc.type = "ApplicationException"
           /\ speaker = NoSpeaker
           /\ calls = <<>>

\* C2: when the BGP section lacks a required setting, start aborts the BGP
\* bootstrap only: no exception leaves start, the engine is not built, and
\* with a valid rpc_host the RPC server task is spawned in the same call.
C2_MissingRequiredAbortsBootstrapOnly ==
    (entry = "start" /\ RequiredMissing /\ Ended
       /\ ~ValidateRpcHostRaises(rpc_host))
        => /\ pc = "done"
           /\ speaker = NoSpeaker
           /\ CallsOf(AddOps \cup {"BGPSpeaker"}) = <<>>
           /\ Len(RpcSpawns) = 1

\* C3: a call of start in which no step fails spawns the RPC server task
\* exactly once, whatever config_file is and whichever sections the module
\* has; it is never spawned twice.
C3_RpcSpawnedOnce ==
    /\ Len(RpcSpawns) <= 1
    /\ pc = "done" => Len(RpcSpawns) = 1

\* C3 witness: start is over for a module with neither BGP nor SSH, and the
\* RPC server task was spawned once
C3_Witness ==
    /\ pc = "done"
    /\ document # NoDocument
    /\ ~HasAttr(document, "BGP")
    /\ ~HasAttr(document, "SSH")
    /\ Len(RpcSpawns) = 1

\* the positions of cs whose call raised RuntimeConfigError
Rejected(cs) == { i \in 1..Len(cs) : cs[i].res = "RuntimeConfigError" }

\* the loop over list through the method op tried every element once, in
\* order, logged one exception per rejected element, in order, and the
\* calls that returned are those of the other elements, in order
AppliedAll(op, list) ==
    LET cs == CallsOf({op}) IN
    /\ Args(cs) = list
    /\ Len(ErrorsOf({op})) = Cardinality(Rejected(cs))
    /\ Args(ErrorsOf({op})) = Pick(list, Rejected(cs))
    /\ \A i \in 1..Len(ErrorsOf({op})) :
           ErrorsOf({op})[i].exc = "RuntimeConfigError"
    /\ Args(SelectSeq(cs, LAMBDA c : c.res = "ok"))
           = Pick(list, (1..Len(list)) \ Rejected(cs))

\* C4: when the engine rejects any of the neighbors (and likewise of the
\* VRFs) with RuntimeConfigError, the loop tries every element exactly once
\* in the order of the list, logs exactly one error per rejected element,
\* and the calls that succeed are those of the other elements, in order.
C4_BulkApplyIsolatesRejected ==
    /\ NeighborsOver => AppliedAll("neighbor_add", ListOf(bgp, "neighbors"))
    /\ VrfsOver => AppliedAll("vrf_add", ListOf(bgp, "vrfs"))

\* C4 witness: [valid1, malformed, valid2] gave three attempts, one logged
\* error and two successes, valid1 then valid2
C4_Witness ==
    LET cs == CallsOf({"neighbor_add"}) IN
    /\ NeighborsOver
    /\ Len(ListOf(bgp, "neighbors")) = 3
    /\ Len(cs) = 3
    /\ cs[1].res = "ok" /\ cs[2].res = "RuntimeConfigError" /\ cs[3].res = "ok"
    /\ Len(ErrorsOf({"neighbor_add"})) = 1

\* the routes _add_routes calls the engine for, and those it skips
IsValidRoute(r) == "prefix" \in DOMAIN r \/ "route_type" \in DOMAIN r
IsInvalidRoute(r) == ~IsValidRoute(r)

\* the number of elements of a list the loops have dealt with
ProcessedOf(key) ==
    CASE key = "neighbors" -> Len(CallsOf({"neighbor_add"}))
      [] key = "vrfs" -> Len(CallsOf({"vrf_add"}))
      [] key = "routes" -> Len(CallsOf(RouteOps)) + Len(skiplog)

\* the calls the loop over a list made
CallsOfList(key) ==
    CASE key = "neighbors" -> CallsOf({"neighbor_add"})
      [] key = "vrfs" -> CallsOf({"vrf_add"})
      [] key = "routes" -> CallsOf(RouteOps)

ListKeys == {"neighbors", "vrfs", "routes"}

\* s is the beginning of t
IsPrefix(s, t) == Len(s) <= Len(t) /\ s = SubSeq(t, 1, Len(s))

\* the elements of each list are dealt with in the order of the list
InListOrder ==
    /\ IsPrefix(Args(CallsOf({"neighbor_add"})), ListOf(bgp, "neighbors"))
    /\ IsPrefix(Args(CallsOf({"vrf_add"})), ListOf(bgp, "vrfs"))
    /\ IsPrefix(Args(CallsOf(RouteOps)),
                SelectSeq(ListOf(bgp, "routes"), IsValidRoute))
    /\ IsPrefix(skiplog, SelectSeq(ListOf(bgp, "routes"), IsInvalidRoute))

\* C5 as stated: each list is applied in its order, and however an element
\* fails, every element after it in the list is still processed.
C5_AnyFailureContinues ==
    bgp # NoSection =>
        /\ InListOrder
        /\ \A key \in ListKeys :
             (Ended /\ \E i \in DOMAIN CallsOfList(key) :
                           CallsOfList(key)[i].res # "ok")
                 => ProcessedOf(key) = Len(ListOf(bgp, key))

\* C5 as amended: each list is applied in its order, and when an element
\* fails with RuntimeConfigError every element after it in the list is still
\* processed, unless a later element raises an exception of another type.
C5_RejectedElementContinues ==
    bgp # NoSection =>
        /\ InListOrder
        /\ \A key \in ListKeys :
             LET cs == CallsOfList(key) IN
             (Ended /\ Rejected(cs) # {}
                    /\ \A i \in DOMAIN cs : cs[i].res # "OtherError")
                 => ProcessedOf(key) = Len(ListOf(bgp, key))

\* C5 witness: the first neighbor of two was rejected and the second was
\* still tried, and _start_speaker returned
C5_Witness ==
    LET cs == CallsOf({"neighbor_add"}) IN
    /\ pc = "returned"
    /\ Len(ListOf(bgp, "neighbors")) >= 2
    /\ Len(cs) = Len(ListOf(bgp, "neighbors"))
    /\ cs[1].res = "RuntimeConfigError"

\* the method the claims give a route
ClaimedMethod(r) ==
    CASE "prefix" \in DOMAIN r -> "prefix_add"
      [] "prefix" \notin DOMAIN r /\ "route_type" \in DOMAIN r
            -> "evpn_prefix_add"
      [] OTHER -> "none"

\* C6: a route with a prefix key goes to prefix_add, a route with only a
\* route_type key goes to evpn_prefix_add, and a route with neither key
\* goes to neither, logs no error (only the debug skip message) and does
\* not stop the routes after it.
C6_RouteClassification ==
    LET cs == CallsOf(RouteOps)
        routes == ListOf(bgp, "routes")
    IN  bgp # NoSection =>
        /\ \A i \in DOMAIN cs : cs[i].op = ClaimedMethod(cs[i].arg)
        /\ \A i \in DOMAIN skiplog : ClaimedMethod(skiplog[i]) = "none"
        /\ \A i \in DOMAIN errlog :
               errlog[i].op \in RouteOps => ClaimedMethod(errlog[i].arg) # "none"
        /\ RoutesOver =>
              /\ Args(cs) = SelectSeq(routes, IsValidRoute)
              /\ skiplog = SelectSeq(routes, IsInvalidRoute)
              /\ Len(ErrorsOf(RouteOps)) = Cardinality(Rejected(cs))

\* C6 witness: a route with neither key was skipped, and the route after
\* it, with only a route_type key, went to evpn_prefix_add
C6_Witness ==
    LET cs == CallsOf(RouteOps)
        routes == ListOf(bgp, "routes")
    IN  /\ RoutesOver
        /\ Len(routes) = 2
        /\ DOMAIN routes[1] = {"next_hop"}
        /\ DOMAIN routes[2] = {"next_hop", "route_type"}
        /\ skiplog = <<routes[1]>>
        /\ Len(cs) = 1
        /\ cs[1].op = "evpn_prefix_add"
        /\ errlog = <<>>

\* r carries both a prefix key and a route_type key
HasBothKeys(r) == "prefix" \in DOMAIN r /\ "route_type" \in DOMAIN r

\* C7: for a route with both a prefix key and a route_type key, prefix_add
\* is called exactly once and evpn_prefix_add is not called.
C7_PrefixWins ==
    LET cs == CallsOf(RouteOps)
        both == SelectSeq(cs, LAMBDA c : HasBothKeys(c.arg))
    IN  bgp # NoSection =>
        /\ \A i \in DOMAIN both : both[i].op = "prefix_add"
        /\ RoutesOver =>
              Len(both) = Len(SelectSeq(ListOf(bgp, "routes"), HasBothKeys))

\* C7 witness: a route with both keys went to prefix_add and the loop is
\* over
C7_Witness ==
    /\ RoutesOver
    /\ \E i \in DOMAIN calls :
          calls[i].op = "prefix_add" /\ HasBothKeys(calls[i].arg)

\* C8: an exception of a type other than RuntimeConfigError raised by the
\* engine for an element is not caught by the loop: it is the last call of
\* _start_speaker (no later element, no later list) and it leaves
\* _start_speaker.
C8_OtherErrorPropagates ==
    \A i \in DOMAIN calls :
        (calls[i].op \in AddOps /\ calls[i].res = "OtherError")
            => /\ i = Len(calls)
               /\ pc = "raised"
               /\ exc = [type |-> "OtherError", at |-> calls[i].op]
               /\ \A j \in DOMAIN errlog : errlog[j].exc # "OtherError"

\* C8 witness: the first of two neighbors raised another exception; the
\* second neighbor, the VRFs and the routes were not applied
C8_Witness ==
    /\ pc = "raised"
    /\ exc = [type |-> "OtherError", at |-> "neighbor_add"]
    /\ Len(ListOf(bgp, "neighbors")) >= 2
    /\ Len(ListOf(bgp, "vrfs")) >= 1
    /\ Len(ListOf(bgp, "routes")) >= 1
    /\ Len(CallsOf(AddOps)) = 1

C10_LoadFailureIsFatal ==
    (entry = "start" /\ pc # "start" /\ LoadsConfig(config_file)
       /\ LoadConfigRaises(config_file))
        => /\ pc = "raised"
           /\ exc = [type |-> "ApplicationException", at |-> "load_config"]
           /\ speaker = NoSpeaker
           /\ calls = <<>>

\* C10 witness: load_source failed on the configuration file and start
\* raised
C10_Witness ==
    /\ config_file = "/etc/ryu/broken.py"
    /\ pc = "raised"
    /\ exc.at = "load_config"
    /\ calls = <<>>

\* the call of load_config is over
LoadOver == entry = "load_config" /\ pc # "load_config"

\* C11 as stated: load_config fails with ApplicationException on an empty
\* path, on a path that is no file and whenever load_source fails; every
\* outcome is a whole module or an ApplicationException.
C11_LoadAllOrNothing ==
    LoadOver =>
        \/ pc = "returned" /\ document \in Documents /\ exc = NoExc
        \/ /\ pc = "raised"
           /\ document = NoDocument
           /\ exc = [type |-> "ApplicationException", at |-> "load_config"]

\* C11 as amended: load_config fails with ApplicationException on an empty
\* path, on a path that is no file and when load_source raises an
\* Exception; an exception of load_source that is no Exception (SystemExit)
\* leaves load_config as it is; no outcome carries a partial module.
C11_LoadAllOrNothingButExit ==
    LoadOver =>
        /\ (~Truthy(config_file) \/ ~IsFile(config_file)
              \/ LoadSourceRaises(config_file))
             => /\ pc = "raised"
                /\ exc = [type |-> "ApplicationException",
                          at |-> "load_config"]
        /\ \/ pc = "returned" /\ document \in Documents /\ exc = NoExc
           \/ /\ pc = "raised"
              /\ document = NoDocument
              /\ exc.at = "load_config"
              /\ \/ exc.type = "ApplicationException"
                 \/ exc.type = "SystemExit" /\ LoadSourceExits(config_file)

\* C11 witness: load_source raised an Exception on an existing file and
\* load_config raised ApplicationException, without a module
C11_Witness ==
    /\ LoadOver
    /\ config_file = "/etc/ryu/broken.py"
    /\ pc = "raised"
    /\ exc.type = "ApplicationException"
    /\ document = NoDocument

\* the ip is a valid IPv4 or IPv6 address
ValidHost(ip) == is_valid_ipv4(ip) \/ is_valid_ipv6(ip)

\* C12: the RPC server task is only ever spawned with a validated bind
\* address: validate_rpc_host hands a valid IPv4 or IPv6 address on as it is
\* and raises ApplicationException on any other, and with an invalid
\* rpc_host start raises and the RPC server task is never spawned.
C12_ValidatedBindAddress ==
    /\ \A i \in DOMAIN RpcSpawns :
          /\ RpcSpawns[i].arg.kwargs.bind_ip = rpc_host
          /\ RpcSpawns[i].arg.kwargs.bind_port = rpc_port
          /\ ValidHost(rpc_host)
    /\ exc.at = "validate_rpc_host"
          => ~ValidHost(rpc_host) /\ exc.type = "ApplicationException"
    /\ (entry = "start" /\ Ended /\ ~ValidHost(rpc_host))
          => pc = "raised" /\ RpcSpawns = <<>>
    /\ (entry = "start" /\ Ended /\ ValidHost(rpc_host) /\ exc = NoExc)
          => pc = "done" /\ Len(RpcSpawns) = 1

\* C12 witness: start is over and the RPC server task is bound to the IPv6
\* address of CONF.rpc_host
C12_Witness ==
    /\ pc = "done"
    /\ rpc_host = "2001:db8::1"
    /\ Len(RpcSpawns) = 1
    /\ RpcSpawns[1].arg.kwargs.bind_ip = "2001:db8::1"

\* the calls on the engine: its construction and its add methods
EngineOps == AddOps \cup {"BGPSpeaker"}

\* C13: in every run of start the steps come in the order load_config, BGP
\* bootstrap (engine construction and add calls), SSH task, RPC server
\* task: no engine call before the configuration is loaded, no engine call
\* after the SSH task is spawned, and nothing after the RPC server task is
\* spawned.
C13_StartOrder ==
    /\ (\E i \in DOMAIN calls : calls[i].op \in EngineOps)
          => document # NoDocument
    /\ \A i, j \in DOMAIN calls :
          (i < j /\ IsSshSpawn(calls[i])) => calls[j].op \notin EngineOps
    /\ \A i \in DOMAIN calls : IsRpcSpawn(calls[i]) => i = Len(calls)
    /\ RpcSpawns # <<>> => pc = "done"

\* C13 witness: a run with all four steps: the engine was built, an add
\* call was made, then the SSH task was spawned, then the RPC server task
C13_Witness ==
    /\ pc = "done"
    /\ Len(calls) >= 4
    /\ calls[1].op = "BGPSpeaker"
    /\ calls[2].op \in AddOps
    /\ IsSshSpawn(calls[Len(calls) - 1])
    /\ IsRpcSpawn(calls[Len(calls)])

\* the module is loaded and has the attribute
Loaded == document # NoDocument
HasSection(name) == Loaded /\ HasAttr(document, name)

\* start has come to the end of its SSH block
PastSshBlock ==
    Loaded /\ (pc \in {"rpc", "done"} \/ exc.at = "validate_rpc_host")

\* C14: a subsystem is started only when its section is in the loaded
\* module: the engine is built and called only with a BGP section, and the
\* SSH task is spawned only with an SSH section, in which case, once start
\* is past that step, it was spawned exactly once with the fields of the
\* section as they are.
C14_OnlyPresentSections ==
    /\ (Built \/ \E i \in DOMAIN calls : calls[i].op \in EngineOps)
          => HasSection("BGP")
    /\ SshSpawns # <<>>
          => /\ HasSection("SSH")
             /\ Len(SshSpawns) = 1
             /\ SshSpawns[1].arg.kwargs = document.attrs["SSH"]
    /\ (PastSshBlock /\ HasSection("SSH")) => Len(SshSpawns) = 1
    /\ (PastSshBlock /\ ~HasSection("SSH")) => SshSpawns = <<>>

\* C14 witness: the module has an SSH section with two fields and no BGP
\* section; start is over, no engine was built and the SSH task was spawned
\* once with both fields
C14_Witness ==
    /\ pc = "done"
    /\ HasSection("SSH")
    /\ ~HasSection("BGP")
    /\ DOMAIN document.attrs["SSH"] = {"ssh_port", "ssh_host"}
    /\ speaker = NoSpeaker
    /\ Len(SshSpawns) = 1
    /\ SshSpawns[1].arg.kwargs = document.attrs["SSH"]

\* the place of a call in _start_speaker
Rank(op) ==
    CASE op = "BGPSpeaker" -> 0
      [] op = "neighbor_add" -> 1
      [] op = "vrf_add" -> 2
      [] op \in RouteOps -> 3
      [] OTHER -> 4

\* C15: in _start_speaker the engine is built before any add call, and the
\* lists are applied as blocks in the order neighbors, VRFs, routes: every
\* neighbor_add comes before every vrf_add, and every vrf_add before every
\* prefix_add or evpn_prefix_add.
C15_BlockOrder ==
    /\ \A i, j \in DOMAIN calls :
          i < j => /\ Rank(calls[i].op) <= Rank(calls[j].op)
                   /\ calls[j].op # "BGPSpeaker"
    /\ (\E i \in DOMAIN calls : calls[i].op \in AddOps)
          => Built /\ calls[1] = Call("BGPSpeaker", speaker.settings, "ok")

\* C15 witness: _start_speaker returned after calls of all three lists
C15_Witness ==
    /\ pc = "returned"
    /\ \E i, j, k \in DOMAIN calls :
          /\ calls[i].op = "neighbor_add"
          /\ calls[j].op = "vrf_add"
          /\ calls[k].op \in RouteOps
          /\ i < j /\ j < k

\* self.speaker is unset until BGPSpeaker has returned, and from then on it
\* is the engine that call built
HandleState ==
    /\ pc \in {"start", "bgp", "speaker"} => speaker = NoSpeaker
    /\ Built <=> \E i \in DOMAIN calls :
                     calls[i].op = "BGPSpeaker" /\ calls[i].res = "ok"
    /\ Built => speaker = Speaker(calls[1].arg)

\* a step that writes self.speaker is the construction of the engine, and
\* it writes an unset handle
HandleStep ==
    speaker' # speaker
        => /\ speaker = NoSpeaker
           /\ pc = "speaker"
           /\ speaker' = Speaker(BgpSettings(bgp))

\* C16: the engine handle is written exactly once, when the engine is
\* built: it is unset from __init__ until then, and no later step of start
\* (the loops, a failing element, the spawns) writes it again or clears it.
C16_HandleWrittenOnce == []HandleState /\ [][HandleStep]_vars

\* C16 witness: start is over; the engine built at the first call is still
\* the handle after a rejected element and both spawns
C16_Witness ==
    /\ pc = "done"
    /\ Built
    /\ speaker = Speaker(calls[1].arg)
    /\ errlog # <<>>
    /\ SshSpawns # <<>>
    /\ RpcSpawns # <<>>

\* the default of an optional setting
DefaultOf(k) ==
    CASE k = BGP_SERVER_PORT -> DEFAULT_BGP_SERVER_PORT
      [] k = REFRESH_STALEPATH_TIME -> DEFAULT_REFRESH_STALEPATH_TIME
      [] k = REFRESH_MAX_EOR_TIME -> DEFAULT_REFRESH_MAX_EOR_TIME
      [] k = LABEL_RANGE -> DEFAULT_LABEL_RANGE

\* C17: the engine is built with exactly six settings, as_number,
\* router_id and the four optional ones; each optional one is the value of
\* the BGP section when the section has the key and its default constant
\* when it has not; no other key of the section (neighbors, vrfs, routes,
\* an unknown key) is handed to the constructor.
C17_ConstructorSettings ==
    \A i \in DOMAIN calls :
        calls[i].op = "BGPSpeaker" =>
            LET a == calls[i].arg IN
            /\ DOMAIN a = {"as_number", "router_id"} \cup OptionalKeys
            /\ \A k \in OptionalKeys :
                   a[k] = IF k \in DOMAIN bgp THEN bgp[k] ELSE DefaultOf(k)
            /\ LOCAL_AS \in DOMAIN bgp => a.as_number = bgp[LOCAL_AS]
            /\ ROUTER_ID \in DOMAIN bgp => a.router_id = bgp[ROUTER_ID]
            /\ Built => speaker.settings = a

\* C17 witness: the engine was built from a section with two of the
\* optional settings, an unknown key and a neighbors list
C17_Witness ==
    /\ Built
    /\ DOMAIN bgp = RequiredKeys
                      \cup {BGP_SERVER_PORT, REFRESH_MAX_EOR_TIME}
                      \cup {"description", "neighbors"}
    /\ speaker.settings.bgp_server_port = bgp[BGP_SERVER_PORT]
    /\ speaker.settings.refresh_max_eor_time = bgp[REFRESH_MAX_EOR_TIME]
    /\ speaker.settings.refresh_stalepath_time = DEFAULT_REFRESH_STALEPATH_TIME
    /\ speaker.settings.label_range = DEFAULT_LABEL_RANGE

\* the tasks spawned by start
Spawns == SelectSeq(calls, LAMBDA c : c.op = "hub.spawn")

\* once start is over no step changes anything
StartOverStep == pc \in {"done", "raised"} => vars' = vars

\* C18: every run of start comes to an end, by returning after the RPC
\* server task is spawned or by raising an exception; start spawns at most
\* two tasks, and no step of start waits for a spawned task: spawning is
\* the last thing start does with a task, and once start is over nothing
\* changes any more.
C18_StartTerminates ==
    /\ <>(pc \in {"done", "raised"})
    /\ [](Len(Spawns) <= 2 /\ Len(SshSpawns) <= 1 /\ Len(RpcSpawns) <= 1)
    /\ [](pc = "done" => Len(RpcSpawns) = 1 /\ exc = NoExc)
    /\ [](pc = "raised" => exc # NoExc /\ RpcSpawns = <<>>)
    /\ [][StartOverStep]_vars

\* C18 witness: start returned after spawning the SSH task and the RPC
\* server task, the engine built and an element rejected on the way
C18_Witness ==
    /\ pc = "done"
    /\ Len(Spawns) = 2
    /\ Len(SshSpawns) = 1
    /\ Len(RpcSpawns) = 1
    /\ Built
    /\ errlog # <<>>

\* an exception left _start_speaker
BootstrapRaised == exc.at \in EngineOps \cup {"_start_speaker"}

\* C19: an exception that leaves _start_speaker, of whatever type, leaves
\* start: start is over with that exception, neither the SSH task nor the
\* RPC server task is spawned, and the engine calls made before it stand:
\* the raising call is the last call, the engine built stays in
\* self.speaker and the elements applied before stay applied.
C19_BootstrapFailureAbortsStart ==
    (entry = "start" /\ BootstrapRaised)
        => /\ pc = "raised"
           /\ Spawns = <<>>
           /\ calls # <<>>
           /\ calls[Len(calls)].op = exc.at
           /\ calls[Len(calls)].res = exc.type
           /\ \A i \in DOMAIN calls :
                  /\ calls[i].op \in EngineOps
                  /\ i < Len(calls) => calls[i].res \in {"ok", "RuntimeConfigError"}
           /\ exc.at \in AddOps
                  => /\ Built
                     /\ calls[1] = Call("BGPSpeaker", BgpSettings(bgp), "ok")
                     /\ speaker = Speaker(calls[1].arg)
           /\ InListOrder

\* C19 witness: the module has an SSH section and rpc_host is valid; the
\* neighbor was added, then vrf_add raised and start raised with no task
\* spawned
C19_Witness ==
    /\ entry = "start"
    /\ pc = "raised"
    /\ exc = [type |-> "OtherError", at |-> "vrf_add"]
    /\ HasSection("SSH")
    /\ ValidHost(rpc_host)
    /\ Len(calls) = 3
    /\ calls[2].op = "neighbor_add"
    /\ calls[2].res = "ok"
    /\ Spawns = <<>>

\* _start_speaker went through the three lists of the section: one call per
\* neighbor and per VRF, one call or one skip per route
BootstrapDone ==
    /\ Built
    /\ calls[1] = Call("BGPSpeaker", BgpSettings(bgp), "ok")
    /\ Len(CallsOf({"neighbor_add"})) = Len(ListOf(bgp, "neighbors"))
    /\ Len(CallsOf({"vrf_add"})) = Len(ListOf(bgp, "vrfs"))
    /\ Len(CallsOf(RouteOps)) + Len(skiplog) = Len(ListOf(bgp, "routes"))

\* C20: rpc_host is validated after the other steps of start: when start
\* raises on an invalid rpc_host, the configuration file, if any, was
\* loaded, the engine was built and its add calls made if the module has a
\* BGP section, and the SSH task was spawned if it has an SSH section; and
\* with config_file unset start loads nothing, builds no engine, spawns no
\* SSH task, and only validates rpc_host and spawns the RPC server task.
C20_ValidationComesLast ==
    /\ (entry = "start" /\ exc.at = "validate_rpc_host")
          => /\ pc = "raised"
             /\ ~ValidHost(rpc_host)
             /\ RpcSpawns = <<>>
             /\ config_file # "" => Loaded
             /\ HasSection("BGP")
                   => bgp = document.attrs["BGP"] /\ BootstrapDone
             /\ HasSection("SSH") => Len(SshSpawns) = 1
    /\ (entry = "start" /\ config_file = "" /\ pc # "start")
          => /\ document = NoDocument
             /\ bgp = NoSection
             /\ speaker = NoSpeaker
             /\ errlog = <<>>
             /\ skiplog = <<>>
             /\ calls = RpcSpawns
             /\ exc.at \in {"none", "validate_rpc_host"}
             /\ IF ValidHost(rpc_host)
                THEN /\ pc \in {"rpc", "done"}
                     /\ pc = "done" <=> Len(calls) = 1
                ELSE /\ pc \in {"rpc", "raised"}
                     /\ calls = <<>>
                     /\ pc = "raised" <=> exc.at = "validate_rpc_host"

\* C20 witness: start raised on an invalid rpc_host after the engine was
\* built, a neighbor added and the SSH task spawned
C20_Witness ==
    /\ entry = "start"
    /\ pc = "raised"
    /\ exc.at = "validate_rpc_host"
    /\ Built
    /\ Len(calls) >= 3
    /\ calls[2].op = "neighbor_add"
    /\ calls[2].res = "ok"
    /\ Len(SshSpawns) = 1
    /\ RpcSpawns = <<>>

====
